---- MODULE Spec2Model ----
(***************************************************************************)
(* drjacoby: the configuration intake System::load (src/src/System.cpp)    *)
(* and the sampler state machine that consumes the configuration.          *)
(*                                                                         *)
(* Host values.  The argument bundle is an Rcpp::List: a finite map from   *)
(* names to host vectors.  A host vector is a sequence; a host scalar is a *)
(* vector of length one.  Reals are represented by integers (fixed point). *)
(***************************************************************************)
EXTENDS Integers, Sequences, FiniteSets, TLC

VARIABLES
    config,         \* the members of the System that load assigns
    lastArgs,       \* the bundle of the most recent call of load
    outcome,        \* how that call ended, and the entry it failed on
    okLoads,        \* calls of load that completed, counted up to MaxLoads
    phase,          \* idle, burnin, sampling, done, cancelled, config_error
    phaseIdx,       \* the burn-in phase in progress, 1..burnin_phases
    iter,           \* iterations completed in the phase in progress
    pc,             \* position within an iteration: step, swap, boundary
    theta,          \* per rung, the chain's current state
    proposal,       \* per rung, the ProposalState: bandwidth and covariance
    frozen,         \* adaptation has been frozen
    swaps,          \* the SwapRecords of the latest coupling pass
    everAttempted,  \* some swap has been attempted in this run
    sampled         \* per rung, the chain's sampling-phase iterations

loaderVars == <<config, lastArgs, outcome, okLoads>>
engineVars == <<phase, phaseIdx, iter, pc, theta, proposal, frozen, swaps,
                everAttempted, sampled>>
vars == <<config, lastArgs, outcome, okLoads, phase, phaseIdx, iter, pc, theta,
          proposal, frozen, swaps, everAttempted, sampled>>

----------------------------------------------------------------------------
(* Bounds of the model *)

\* longest theta_init / theta_min / theta_max / trans_type vector offered
MaxDim == 2
\* longest burnin vector and largest burnin_phases offered
MaxPhases == 2
\* completed calls of load that okLoads tells apart
MaxLoads == 2
\* largest tempering ladder run
MaxRungs == 2
\* largest number of sampling iterations run
MaxSamples == 2

----------------------------------------------------------------------------
(* Converters of misc_v4.h, as System::load uses them *)

rcpp_to_vector_double(v) == [i \in 1..Len(v) |-> v[i]]

rcpp_to_vector_int(v) == [i \in 1..Len(v) |-> v[i]]

rcpp_to_vector_bool(v) == [i \in 1..Len(v) |-> v[i]]

rcpp_to_int(v) == v[1]

rcpp_to_double(v) == v[1]

rcpp_to_bool(v) == v[1]

Convert(conv, v) ==
    CASE conv = "vector_double" -> rcpp_to_vector_double(v)
      [] conv = "vector_int"    -> rcpp_to_vector_int(v)
      [] conv = "vector_bool"   -> rcpp_to_vector_bool(v)
      [] conv = "int"           -> rcpp_to_int(v)
      [] conv = "double"        -> rcpp_to_double(v)
      [] conv = "bool"          -> rcpp_to_bool(v)

----------------------------------------------------------------------------
(* System::load *)

\* A variant of the assignments in which theta_max is read from the entry
\* "theta_min".
StatementsCrossed ==
    << [field |-> "x",             name |-> "x",             conv |-> "vector_double"],
       [field |-> "theta_init",    name |-> "theta_init",    conv |-> "vector_double"],
       [field |-> "theta_min",     name |-> "theta_min",     conv |-> "vector_double"],
       [field |-> "theta_max",     name |-> "theta_min",     conv |-> "vector_double"],
       [field |-> "trans_type",    name |-> "trans_type",    conv |-> "vector_int"],
       [field |-> "d",             name |-> "",              conv |-> "size"],
       [field |-> "burnin",        name |-> "burnin",        conv |-> "vector_int"],
       [field |-> "samples",       name |-> "samples",       conv |-> "int"],
       [field |-> "rungs",         name |-> "rungs",         conv |-> "int"],
       [field |-> "burnin_phases", name |-> "burnin_phases", conv |-> "int"],
       [field |-> "bw_update",     name |-> "bw_update",     conv |-> "vector_bool"],
       [field |-> "cov_update",    name |-> "cov_update",    conv |-> "vector_bool"],
       [field |-> "coupling_on",   name |-> "coupling_on",   conv |-> "vector_bool"],
       [field |-> "GTI_pow",       name |-> "GTI_pow",       conv |-> "double"],
       [field |-> "chain",         name |-> "chain",         conv |-> "int"],
       [field |-> "pb_markdown",   name |-> "pb_markdown",   conv |-> "bool"],
       [field |-> "silent",        name |-> "silent",        conv |-> "bool"] >>

\* The assignments of load, in program order (lines 16-38): the member
\* assigned, the entry of args_params read, the converter applied.
Statements ==
    << [field |-> "x",             name |-> "x",             conv |-> "vector_double"],
       [field |-> "theta_init",    name |-> "theta_init",    conv |-> "vector_double"],
       [field |-> "theta_min",     name |-> "theta_min",     conv |-> "vector_double"],
       [field |-> "theta_max",     name |-> "theta_max",     conv |-> "vector_double"],
       [field |-> "trans_type",    name |-> "trans_type",    conv |-> "vector_int"],
       [field |-> "d",             name |-> "",              conv |-> "size"],
       [field |-> "burnin",        name |-> "burnin",        conv |-> "vector_int"],
       [field |-> "samples",       name |-> "samples",       conv |-> "int"],
       [field |-> "rungs",         name |-> "rungs",         conv |-> "int"],
       [field |-> "burnin_phases", name |-> "burnin_phases", conv |-> "int"],
       [field |-> "bw_update",     name |-> "bw_update",     conv |-> "vector_bool"],
       [field |-> "cov_update",    name |-> "cov_update",    conv |-> "vector_bool"],
       [field |-> "coupling_on",   name |-> "coupling_on",   conv |-> "vector_bool"],
       [field |-> "GTI_pow",       name |-> "GTI_pow",       conv |-> "double"],
       [field |-> "chain",         name |-> "chain",         conv |-> "int"],
       [field |-> "pb_markdown",   name |-> "pb_markdown",   conv |-> "bool"],
       [field |-> "silent",        name |-> "silent",        conv |-> "bool"] >>

\* The names load reads from args_params.
RecognizedFields == {Statements[i].name : i \in 1..Len(Statements)} \ {""}

\* list[name] of an Rcpp::List is defined only for a name the list holds;
\* for any other name the access throws index_out_of_bounds.
HasEntry(list, name) == name \in DOMAIN list

\* A variant of one assignment that fills a vector member only while it is
\* still empty.
ExecFillOnce(cfg, s, p) ==
    IF s.conv = "size"
    THEN [cfg EXCEPT !.d = Len(cfg.theta_init)]
    ELSE IF s.conv \in {"vector_double", "vector_int", "vector_bool"}
              /\ cfg[s.field] # <<>>
         THEN cfg
         ELSE [cfg EXCEPT ![s.field] = Convert(s.conv, p[s.name])]

\* One assignment statement of load.
Exec(cfg, s, p) ==
    IF s.conv = "size"
    THEN [cfg EXCEPT !.d = Len(cfg.theta_init)]
    ELSE [cfg EXCEPT ![s.field] = Convert(s.conv, p[s.name])]

\* The statements from the i-th on: each runs on the members as the
\* statements before it left them; a missing entry throws and leaves the
\* members assigned so far in place.
RECURSIVE RunFrom(_, _, _)
RunFrom(i, cfg, p) ==
    IF i > Len(Statements)
    THEN [cfg |-> cfg, status |-> "ok", field |-> ""]
    ELSE LET s == Statements[i]
         IN  IF s.conv # "size" /\ ~HasEntry(p, s.name)
             THEN [cfg |-> cfg, status |-> "index_out_of_bounds", field |-> s.name]
             ELSE RunFrom(i + 1, Exec(cfg, s, p), p)

\* The first of the lists of lines 10-13 that args does not hold, "" if none.
MissingList(args) ==
    IF ~HasEntry(args, "args_params") THEN "args_params"
    ELSE IF ~HasEntry(args, "args_functions") THEN "args_functions"
    ELSE IF ~HasEntry(args, "args_progress") THEN "args_progress"
    ELSE IF ~HasEntry(args["args_progress"], "pb_burnin") THEN "pb_burnin"
    ELSE ""

\* System::load(args) on a System whose members are cfg.
LoadResult(cfg, args) ==
    IF MissingList(args) # ""
    THEN [cfg |-> cfg, status |-> "index_out_of_bounds", field |-> MissingList(args)]
    ELSE RunFrom(1, cfg, args["args_params"])

----------------------------------------------------------------------------
(* Argument bundles offered to load *)

ThetaMin(n) == [i \in 1..n |-> 10 * i]
ThetaMax(n) == [i \in 1..n |-> 10 * i + 4]
\* off moves the last component: 0 inside its bounds, -3 below, 3 above
ThetaInit(n, off) == [i \in 1..n |-> 10 * i + 2 + (IF i = n THEN off ELSE 0)]
TransType(n) == [i \in 1..n |-> i % 3]
\* phase lengths 1, 2, 1, 2, ...
BurninVec(n) == [i \in 1..n |-> 2 - (i % 2)]

BaseParams ==
    [ x             |-> <<7>>,
      theta_init    |-> ThetaInit(1, 0),
      theta_min     |-> ThetaMin(1),
      theta_max     |-> ThetaMax(1),
      trans_type    |-> TransType(1),
      burnin        |-> BurninVec(1),
      samples       |-> <<2>>,
      rungs         |-> <<1>>,
      burnin_phases |-> <<1>>,
      bw_update     |-> <<TRUE>>,
      cov_update    |-> <<FALSE>>,
      coupling_on   |-> <<TRUE>>,
      GTI_pow       |-> <<3>>,
      chain         |-> <<1>>,
      pb_markdown   |-> <<FALSE>>,
      silent        |-> <<TRUE>> ]

MkArgs(p, f, g) ==
    [args_params |-> p, args_functions |-> f, args_progress |-> g]

BaseFunctions == [loglike |-> "loglike_a", logprior |-> "logprior_a"]
BaseProgress == [pb_burnin |-> "pb_a", pb_samples |-> "pb_a"]

Dims == 0..MaxDim

\* theta vectors of a common length n, one of them (odd) of length m instead
ThetaLengths ==
    { MkArgs([BaseParams EXCEPT
                !.theta_init = ThetaInit(IF odd = "theta_init" THEN m ELSE n, 0),
                !.theta_min = ThetaMin(IF odd = "theta_min" THEN m ELSE n),
                !.theta_max = ThetaMax(IF odd = "theta_max" THEN m ELSE n),
                !.trans_type = TransType(IF odd = "trans_type" THEN m ELSE n)],
             BaseFunctions, BaseProgress)
        : n \in Dims, m \in Dims,
          odd \in {"theta_init", "theta_min", "theta_max", "trans_type"} }

\* theta vectors of equal length, theta_init inside or outside its bounds
ThetaBounds ==
    { MkArgs([BaseParams EXCEPT !.theta_init = ThetaInit(n, off),
                                 !.theta_min = ThetaMin(n),
                                 !.theta_max = ThetaMax(n),
                                 !.trans_type = TransType(n)],
             BaseFunctions, BaseProgress)
        : n \in Dims, off \in {-3, 0, 3} }

ThetaFamily == ThetaLengths \cup ThetaBounds

\* the burn-in schedule: every length of burnin with every burnin_phases
PhaseFamily ==
    { MkArgs([BaseParams EXCEPT !.burnin = BurninVec(nb),
                                 !.burnin_phases = <<bp>>],
             BaseFunctions, BaseProgress)
        : nb \in 0..MaxPhases, bp \in 0..MaxPhases }

ScalarFamily ==
    { MkArgs([BaseParams EXCEPT !.samples = <<s>>,
                                 !.rungs = <<r>>,
                                 !.GTI_pow = <<g>>],
             BaseFunctions, BaseProgress)
        : s \in {-1, 0, 2}, r \in {0, 1, 2}, g \in {0, 3} }

McmcFamily == PhaseFamily \cup ScalarFamily

VectorFlags ==
    { MkArgs([BaseParams EXCEPT !.x = xv,
                                 !.bw_update = bw,
                                 !.cov_update = cv,
                                 !.coupling_on = co],
             BaseFunctions, BaseProgress)
        : xv \in {<<>>, <<7, 8>>}, bw \in {<<TRUE>>, <<FALSE, TRUE>>},
          cv \in {<<FALSE>>, <<TRUE, FALSE>>}, co \in {<<TRUE>>, <<TRUE, FALSE>>} }

ScalarFlags ==
    { MkArgs([BaseParams EXCEPT !.chain = <<c>>,
                                 !.pb_markdown = <<pm>>,
                                 !.silent = <<sl>>],
             BaseFunctions, BaseProgress)
        : c \in {1, 2}, pm \in BOOLEAN, sl \in BOOLEAN }

FlagsFamily == VectorFlags \cup ScalarFlags

\* other functions and progress bars with the same parameters
FunctionVals == {BaseFunctions, [loglike |-> "loglike_b", logprior |-> "logprior_b"]}
ProgressVals == {BaseProgress, [pb_burnin |-> "pb_b", pb_samples |-> "pb_b"]}

EnvFamily == { MkArgs(BaseParams, f, g) : f \in FunctionVals, g \in ProgressVals }

Without(list, name) == [k \in (DOMAIN list) \ {name} |-> list[k]]

\* bundles that lack an entry load reads, or hold one it does not read
MalformedFamily ==
    { MkArgs(Without(BaseParams, n), BaseFunctions, BaseProgress)
        : n \in {"x", "trans_type", "samples", "silent"} }
    \cup { Without(MkArgs(BaseParams, BaseFunctions, BaseProgress), "args_functions"),
           MkArgs(BaseParams, BaseFunctions, Without(BaseProgress, "pb_burnin")) }
    \cup { MkArgs(BaseParams @@ ("beta_manual" :> <<1>>), BaseFunctions, BaseProgress),
           MkArgs(Without(BaseParams, "chain") @@ ("chains" :> <<2>>),
                  BaseFunctions, BaseProgress) }

Bundles == ThetaFamily \cup McmcFamily \cup FlagsFamily \cup EnvFamily \cup MalformedFamily

----------------------------------------------------------------------------
(* State *)

\* The members of a System before load has run: the vectors are empty, the
\* scalars hold whatever the storage held.
Unloaded(g) ==
    [ x |-> <<>>, theta_init |-> <<>>, theta_min |-> <<>>, theta_max |-> <<>>,
      trans_type |-> <<>>, d |-> g, burnin |-> <<>>, samples |-> g, rungs |-> g,
      burnin_phases |-> g, bw_update |-> <<>>, cov_update |-> <<>>,
      coupling_on |-> <<>>, GTI_pow |-> g, chain |-> g,
      pb_markdown |-> (g # 0), silent |-> (g # 0) ]

Indeterminate == {0, 1}

NoArgs == [none |-> TRUE]

EngineIdle ==
    /\ phase = "idle"
    /\ phaseIdx = 0
    /\ iter = 0
    /\ pc = "none"
    /\ theta = <<>>
    /\ proposal = <<>>
    /\ frozen = FALSE
    /\ swaps = <<>>
    /\ everAttempted = FALSE
    /\ sampled = <<>>

Init ==
    /\ \E g \in Indeterminate : config = Unloaded(g)
    /\ lastArgs = NoArgs
    /\ outcome = [status |-> "unloaded", field |-> ""]
    /\ okLoads = 0
    /\ EngineIdle

\* System::load(args)
Load ==
    \E args \in Bundles :
        \E r \in {LoadResult(config, args)} :
            /\ config' = r.cfg
            /\ lastArgs' = args
            /\ outcome' = [status |-> r.status, field |-> r.field]
            /\ okLoads' = IF r.status = "ok" /\ okLoads < MaxLoads
                          THEN okLoads + 1 ELSE okLoads
            /\ UNCHANGED engineVars

Next == Load

Spec == Init /\ [][Next]_vars

----------------------------------------------------------------------------
(* Properties of System::load *)

Called == outcome.status # "unloaded"
Completed == outcome.status = "ok"

\* the bundle holds the four lists and every entry load reads
WellFormed(args) ==
    /\ MissingList(args) = ""
    /\ RecognizedFields \subseteq DOMAIN args["args_params"]

SameLengths(p) ==
    /\ Len(p.theta_init) = Len(p.theta_min)
    /\ Len(p.theta_init) = Len(p.theta_max)
    /\ Len(p.theta_init) = Len(p.trans_type)

WithinBounds(init, lo, hi) ==
    \A i \in DOMAIN init :
        /\ i \in DOMAIN lo => lo[i] <= init[i]
        /\ i \in DOMAIN hi => init[i] <= hi[i]

\* C1: a bundle whose theta_init, theta_min, theta_max and trans_type do not
\* all have the same length makes load fail; load never completes with
\* sequences of different lengths stored.
C1_LengthMismatchRejected ==
    /\ (Called /\ WellFormed(lastArgs) /\ ~SameLengths(lastArgs.args_params))
          => ~Completed
    /\ Completed => SameLengths(config)

\* C2: a bundle whose burnin has a length other than burnin_phases makes load
\* fail; after a load that completed, Len(burnin) = burnin_phases.
C2_BurninLengthRejected ==
    /\ (Called /\ WellFormed(lastArgs)
          /\ Len(lastArgs.args_params.burnin) # lastArgs.args_params.burnin_phases[1])
          => ~Completed
    /\ Completed => Len(config.burnin) = config.burnin_phases

\* C3: a bundle with rungs < 1, samples < 0 or GTI_pow <= 0 makes load fail;
\* after a load that completed, rungs >= 1, samples >= 0 and GTI_pow > 0.
C3_ScalarRangesRejected ==
    /\ (Called /\ WellFormed(lastArgs)
          /\ (\/ lastArgs.args_params.rungs[1] < 1
              \/ lastArgs.args_params.samples[1] < 0
              \/ lastArgs.args_params.GTI_pow[1] <= 0))
          => ~Completed
    /\ Completed => (config.rungs >= 1 /\ config.samples >= 0 /\ config.GTI_pow > 0)

\* C4: a bundle with a component of theta_init outside [theta_min, theta_max]
\* makes load fail; after a load that completed, theta_min[i] <= theta_init[i]
\* <= theta_max[i] in every dimension i.
C4_InitOutsideBoundsRejected ==
    /\ (Called /\ WellFormed(lastArgs)
          /\ ~WithinBounds(lastArgs.args_params.theta_init,
                           lastArgs.args_params.theta_min,
                           lastArgs.args_params.theta_max))
          => ~Completed
    /\ Completed => WithinBounds(config.theta_init, config.theta_min, config.theta_max)

\* C5: a bundle that lacks an entry load reads, or holds an entry load does
\* not read, makes load fail: a load that completed was given exactly the
\* recognized entries.
C5_UnknownOrMissingRejected ==
    (Called /\ MissingList(lastArgs) = ""
       /\ DOMAIN lastArgs.args_params # RecognizedFields)
       => ~Completed

\* C6: once a call of load has completed, no later step changes any member of
\* the configuration, a further call of load included.
C6_NeverMutatedAfterLoad ==
    [][okLoads >= 1 => config' = config]_vars

\* C9: after a call of load that completed, every member equals the entry of
\* the same name in args_params, d is the length of theta_init, and the
\* members are the same whatever args_functions and args_progress hold.
C9_FaithfulCopy ==
    Completed =>
        LET p == lastArgs.args_params
        IN  /\ config.x = p.x
            /\ config.theta_init = p.theta_init
            /\ config.theta_min = p.theta_min
            /\ config.theta_max = p.theta_max
            /\ config.trans_type = p.trans_type
            /\ config.d = Len(p.theta_init)
            /\ config.burnin = p.burnin
            /\ config.samples = p.samples[1]
            /\ config.rungs = p.rungs[1]
            /\ config.burnin_phases = p.burnin_phases[1]
            /\ config.bw_update = p.bw_update
            /\ config.cov_update = p.cov_update
            /\ config.coupling_on = p.coupling_on
            /\ config.GTI_pow = p.GTI_pow[1]
            /\ config.chain = p.chain[1]
            /\ config.pb_markdown = p.pb_markdown[1]
            /\ config.silent = p.silent[1]
            /\ \A f \in FunctionVals, g \in ProgressVals :
                  LoadResult(config, MkArgs(p, f, g)).cfg = config

\* a completed load stored a two-dimensional theta_init beside a shorter
\* theta_max
C9_Witness ==
    /\ Completed
    /\ config.d = 2
    /\ Len(config.theta_max) = 1
    /\ config.theta_init[2] = 22

\* C10: a call of load that completes leaves the members it would leave on a
\* System never loaded before, whatever the members were (no member keeps a
\* value of an earlier call), and calling it again with the same bundle
\* leaves them as they are.
C10_LastLoadDecides ==
    [][outcome'.status = "ok" =>
          /\ \A g \in Indeterminate :
                config' = LoadResult(Unloaded(g), lastArgs').cfg
          /\ LoadResult(config', lastArgs').cfg = config']_vars

\* a second completed load, of a bundle with two data points
C10_Witness ==
    /\ okLoads >= 2
    /\ Completed
    /\ config.x = <<7, 8>>
    /\ config.chain = 1

----------------------------------------------------------------------------
(* The sampler: RungLadder, Chain, ProposalTuner, CouplingEngine,          *)
(* BurnInScheduler and Sampler, run on a loaded configuration              *)

Rungs(cfg) == 1..cfg.rungs
\* the adjacent pairs (k, k+1), named by k
Pairs(cfg) == 1..(cfg.rungs - 1)

\* chain states, abstracted to two values
ThetaVals == {0, 1}

\* the validation of the configuration at construction
ValidConfig(cfg) ==
    /\ SameLengths(cfg)
    /\ WithinBounds(cfg.theta_init, cfg.theta_min, cfg.theta_max)
    /\ cfg.rungs >= 1
    /\ cfg.samples >= 0
    /\ cfg.GTI_pow > 0
    /\ Len(cfg.burnin) = cfg.burnin_phases

\* the per-rung tables hold one entry per rung
LadderShaped(cfg) ==
    /\ Len(cfg.coupling_on) = cfg.rungs
    /\ Len(cfg.bw_update) = cfg.rungs
    /\ Len(cfg.cov_update) = cfg.rungs

\* A variant of adapt that goes on adapting after the freeze.
AdaptUnfrozen(ps, bw_flag, cov_flag, frz) ==
    [bw  |-> IF bw_flag THEN ps.bw + 1 ELSE ps.bw,
     cov |-> IF cov_flag THEN ps.cov + 1 ELSE ps.cov]

\* ProposalTuner.adapt on one rung's ProposalState: a no-op once frozen;
\* otherwise the bandwidth and the covariance are recomputed where their flag
\* is set (a recomputed value is a new revision of it).
Adapt(ps, bw_flag, cov_flag, frz) ==
    IF frz
    THEN ps
    ELSE [bw  |-> IF bw_flag THEN ps.bw + 1 ELSE ps.bw,
          cov |-> IF cov_flag THEN ps.cov + 1 ELSE ps.cov]

\* the candidate a chain proposes: a state other than its own
Candidate(cur) == CHOOSE v \in ThetaVals : v # cur

\* Chain.step on one chain: the candidate replaces the state if accepted
ChainStep(cur, cand, accept) == IF accept THEN cand ELSE cur

\* A variant of the gate that asks only the lower rung of the pair.
ParticipatesLower(cfg, k) == cfg.coupling_on[k]

\* the pair (k, k+1) may swap: coupling_on is true for both rungs
Participates(cfg, k) == cfg.coupling_on[k] /\ cfg.coupling_on[k + 1]

Swapped(th, k) == [th EXCEPT ![k] = th[k + 1], ![k + 1] = th[k]]

\* CouplingEngine.attempt_swap from pair k on: the pairs in order, each
\* swapped if it participates and its proposal is accepted
RECURSIVE SwapPass(_, _, _, _)
SwapPass(th, k, acc, cfg) ==
    IF k > cfg.rungs - 1
    THEN th
    ELSE SwapPass(IF Participates(cfg, k) /\ acc[k] THEN Swapped(th, k) ELSE th,
                  k + 1, acc, cfg)

\* the SwapRecords of one pass
SwapRecords(acc, cfg) ==
    [k \in Pairs(cfg) |->
        [attempted |-> Participates(cfg, k),
         accepted  |-> Participates(cfg, k) /\ acc[k]]]

\* iterations the phase in progress runs
PhaseLength(cfg, ph, idx) ==
    IF ph = "burnin" THEN cfg.burnin[idx] ELSE cfg.samples

\* RungLadder construction on a configuration that passes validation
Construct ==
    /\ phase = "idle"
    /\ Completed
    /\ ValidConfig(config) /\ LadderShaped(config)
    /\ theta' = [k \in Rungs(config) |-> 0]
    /\ proposal' = [k \in Rungs(config) |-> [bw |-> 1, cov |-> 1]]
    /\ sampled' = [k \in Rungs(config) |-> 0]
    /\ swaps' = <<>>
    /\ everAttempted' = FALSE
    /\ iter' = 0
    /\ IF config.burnin_phases = 0
       THEN /\ phase' = "sampling"
            /\ phaseIdx' = 0
            /\ frozen' = TRUE
            /\ pc' = "step"
       ELSE /\ phase' = "burnin"
            /\ phaseIdx' = 1
            /\ frozen' = FALSE
            /\ pc' = IF config.burnin[1] = 0 THEN "boundary" ELSE "step"
    /\ UNCHANGED loaderVars

\* construction on a configuration that fails validation
ConstructFail ==
    /\ phase = "idle"
    /\ Completed
    /\ ~(ValidConfig(config) /\ LadderShaped(config))
    /\ phase' = "config_error"
    /\ UNCHANGED <<phaseIdx, iter, pc, theta, proposal, frozen, swaps,
                   everAttempted, sampled>>
    /\ UNCHANGED loaderVars

\* Sampler, first half of an iteration: every rung's Chain.step runs once
Step ==
    /\ phase \in {"burnin", "sampling"}
    /\ pc = "step"
    /\ iter < PhaseLength(config, phase, phaseIdx)
    /\ \E accept \in [Rungs(config) -> BOOLEAN] :
          theta' = [k \in Rungs(config) |->
                      ChainStep(theta[k], Candidate(theta[k]), accept[k])]
    /\ sampled' = IF phase = "sampling"
                  THEN [k \in Rungs(config) |-> sampled[k] + 1]
                  ELSE sampled
    /\ pc' = "swap"
    /\ UNCHANGED <<phase, phaseIdx, iter, proposal, frozen, swaps, everAttempted>>
    /\ UNCHANGED loaderVars

\* Sampler, second half of an iteration: one CouplingEngine.attempt_swap pass
\* over the adjacent pairs, which ends the iteration
AttemptSwap ==
    /\ phase \in {"burnin", "sampling"}
    /\ pc = "swap"
    /\ \E acc \in [Pairs(config) -> BOOLEAN] :
          /\ theta' = SwapPass(theta, 1, acc, config)
          /\ swaps' = SwapRecords(acc, config)
          /\ everAttempted' =
                (everAttempted \/ \E k \in Pairs(config) : SwapRecords(acc, config)[k].attempted)
    /\ iter' = iter + 1
    /\ pc' = IF phase = "burnin" /\ iter + 1 >= PhaseLength(config, phase, phaseIdx)
             THEN "boundary" ELSE "step"
    /\ UNCHANGED <<phase, phaseIdx, proposal, frozen, sampled>>
    /\ UNCHANGED loaderVars

\* BurnInScheduler at the end of a burn-in phase: adapt on every rung, then
\* the next phase, or after the last phase the freeze and the sampling phase
PhaseEnd ==
    /\ phase = "burnin"
    /\ pc = "boundary"
    /\ proposal' = [k \in Rungs(config) |->
                      Adapt(proposal[k], config.bw_update[k], config.cov_update[k], frozen)]
    /\ iter' = 0
    /\ IF phaseIdx >= config.burnin_phases
       THEN /\ phase' = "sampling"
            /\ frozen' = TRUE
            /\ pc' = "step"
            /\ UNCHANGED phaseIdx
       ELSE /\ phaseIdx' = phaseIdx + 1
            /\ pc' = IF config.burnin[phaseIdx + 1] = 0 THEN "boundary" ELSE "step"
            /\ UNCHANGED <<phase, frozen>>
    /\ UNCHANGED <<theta, swaps, everAttempted, sampled>>
    /\ UNCHANGED loaderVars

\* ProposalTuner.adapt invoked on a rung during the sampling phase
AdaptWhileSampling ==
    /\ phase = "sampling"
    /\ pc = "step"
    /\ \E k \in Rungs(config) :
          proposal' = [proposal EXCEPT
                         ![k] = Adapt(@, config.bw_update[k], config.cov_update[k], frozen)]
    /\ UNCHANGED <<phase, phaseIdx, iter, pc, theta, frozen, swaps, everAttempted, sampled>>
    /\ UNCHANGED loaderVars

\* the sampling phase has run its iterations
Finish ==
    /\ phase = "sampling"
    /\ pc = "step"
    /\ iter >= config.samples
    /\ phase' = "done"
    /\ pc' = "none"
    /\ UNCHANGED <<phaseIdx, iter, theta, proposal, frozen, swaps, everAttempted, sampled>>
    /\ UNCHANGED loaderVars

\* cooperative cancellation, checked at an iteration boundary
Cancel ==
    /\ phase \in {"burnin", "sampling"}
    /\ pc \in {"step", "boundary"}
    /\ phase' = "cancelled"
    /\ pc' = "none"
    /\ UNCHANGED <<phaseIdx, iter, theta, proposal, frozen, swaps, everAttempted, sampled>>
    /\ UNCHANGED loaderVars

\* configurations run: every setting of the per-rung flags on every ladder,
\* every burn-in schedule and sample count within the bounds
ValidRunBundles ==
    UNION { { MkArgs([BaseParams EXCEPT !.rungs = <<r>>,
                                        !.bw_update = bw,
                                        !.cov_update = cv,
                                        !.coupling_on = co,
                                        !.burnin = BurninVec(np),
                                        !.burnin_phases = <<np>>,
                                        !.samples = <<s>>],
                     BaseFunctions, BaseProgress)
                : bw \in [1..r -> BOOLEAN], cv \in [1..r -> BOOLEAN],
                  co \in [1..r -> BOOLEAN], np \in 0..MaxPhases, s \in 0..MaxSamples }
            : r \in 1..MaxRungs }

RunBundles == ValidRunBundles \cup ThetaBounds \cup ScalarFamily

InitRun ==
    /\ \E args \in RunBundles :
          /\ config = LoadResult(Unloaded(0), args).cfg
          /\ lastArgs = args
    /\ outcome = [status |-> "ok", field |-> ""]
    /\ okLoads = 1
    /\ EngineIdle

NextRun ==
    \/ Construct
    \/ ConstructFail
    \/ Step
    \/ AttemptSwap
    \/ PhaseEnd
    \/ AdaptWhileSampling
    \/ Finish
    \/ Cancel

SpecRun == InitRun /\ [][NextRun]_vars

----------------------------------------------------------------------------
(* Properties of the sampler *)

ProposalKept ==
    phase \in {"sampling", "done"} => proposal' = proposal

BurninLeftForSampling ==
    (phase = "burnin" /\ phase' \notin {"burnin", "cancelled"})
        => /\ phaseIdx = config.burnin_phases
           /\ iter >= config.burnin[phaseIdx]
           /\ phase' = "sampling"
           /\ frozen'

UncoupledRungMovesOnlyInStep ==
    \A k \in DOMAIN theta :
        (~config.coupling_on[k] /\ theta'[k] # theta[k]) => pc = "step"

\* the last iteration of the last burn-in phase has run
LastBurninIterationRun ==
    \/ phase \in {"sampling", "done"}
    \/ phase = "burnin" /\ phaseIdx = config.burnin_phases /\ pc = "boundary"

ProposalKeptFromLastIteration ==
    LastBurninIterationRun => proposal' = proposal

C8_CouplingGate ==
    /\ [](\A k \in DOMAIN swaps :
            swaps[k].attempted => (config.coupling_on[k] /\ config.coupling_on[k + 1]))
    /\ [][UncoupledRungMovesOnlyInStep]_vars
    /\ [](config.rungs = 1 => (~everAttempted /\ swaps = <<>>))

\* after a coupling pass on two rungs holding different states, the second
\* with coupling off: the pair was recorded and not attempted
C8_Witness ==
    /\ phase = "sampling"
    /\ pc = "step"
    /\ iter >= 1
    /\ config.coupling_on = <<TRUE, FALSE>>
    /\ DOMAIN swaps = {1}
    /\ ~swaps[1].attempted
    /\ theta = <<1, 0>>

====
